---- MODULE Spec2Model ----
(***************************************************************************)
(* The crossword synchronisation server of src/python/websocketServer.py:  *)
(* a Redis store (r), the Socket.IO event handlers that read and write it, *)
(* and the messages the handlers emit to the connected clients.            *)
(*                                                                         *)
(* Every Redis command is one atomic step.  A handler is a sequence of     *)
(* such steps: Flask-SocketIO runs each event handler in its own thread,   *)
(* so the steps of different handlers interleave.                          *)
(***************************************************************************)
EXTENDS Integers, Sequences, FiniteSets, TLC

\* ------------------------------------------------------------------ bounds

\* Number of Socket.IO connections (each gets a fresh request.sid).
NumClients == 2

\* Number of client events (grid updates, position updates) the server
\* dispatches in one run.
MaxEvents == 2

\* Number of event handlers in progress at the same time.
MaxHandlers == 2

\* request.sid of the i-th connection: an opaque string.
SidOf(i) == "sid" \o ToString(i)

Sids == {SidOf(i) : i \in 1..NumClients}

\* Letters a client may write into a cell.
Values == {"A", "B"}

\* Cursor positions a client may report.
CursorPositions == {1}

\* ----------------------------------------------------- Python and Redis

\* redis-py encodes an int argument as its decimal text.
str(n) == ToString(n)

\* The integer each decimal text denotes (the texts this model stores).
intOf == [s \in {ToString(n) : n \in -9..9} |-> CHOOSE n \in -9..9 : ToString(n) = s]

\* int(x.decode('utf-8')).
int(s) == intOf[s]

\* r.get of a key that does not exist.
None == "None"

Reverse(s) == [i \in 1..Len(s) |-> s[Len(s) + 1 - i]]

\* RPUSH key v1 v2 ...: each value is appended at the tail.
rpush(list, values) == list \o values

\* lpush that overwrites the list with the pushed values.
lpushReplace(list, values) == Reverse(values)

\* LPUSH key v1 v2 ...: each value in turn is inserted at the head, so the
\* last argument ends up first.
lpush(list, values) == Reverse(values) \o list

\* LSET accepts index in -len..len-1 (a negative index counts from the
\* tail); anything else is the error "index out of range".
lsetInRange(list, index) == -Len(list) <= index /\ index < Len(list)

\* The 1-based place of the element LSET writes.
lsetPlace(list, index) == IF index >= 0 THEN index + 1 ELSE Len(list) + index + 1

\* lset counting a non-negative index from the tail instead of the head.
lsetFromTail(list, index, value) ==
    [list EXCEPT ![IF index >= 0 THEN Len(list) - index ELSE -index] = value]

\* lset that leaves a cell alone once it holds a letter.
lsetIfBlank(list, index, value) ==
    IF list[lsetPlace(list, index)] \in {" ", "."}
    THEN [list EXCEPT ![lsetPlace(list, index)] = value]
    ELSE list

lset(list, index, value) == [list EXCEPT ![lsetPlace(list, index)] = value]

\* A Redis hash is a sequence of <<field, value>> pairs in insertion order.
hkeys(hash) == [i \in 1..Len(hash) |-> hash[i][1]]

hvals(hash) == [i \in 1..Len(hash) |-> hash[i][2]]

hexists(hash, field) == \E i \in 1..Len(hash) : hash[i][1] = field

hget(hash, field) == hash[CHOOSE i \in 1..Len(hash) : hash[i][1] = field][2]

\* hset that gives the value to every field of the hash.
hsetAll(hash, field, value) ==
    IF hexists(hash, field)
    THEN [i \in 1..Len(hash) |-> <<hash[i][1], value>>]
    ELSE Append([i \in 1..Len(hash) |-> <<hash[i][1], value>>], <<field, value>>)

\* HSET: an existing field keeps its place, a new one goes last.
hset(hash, field, value) ==
    IF hexists(hash, field)
    THEN [i \in 1..Len(hash) |->
             IF hash[i][1] = field THEN <<field, value>> ELSE hash[i]]
    ELSE Append(hash, <<field, value>>)

\* hdel that deletes the whole hash.
hdelAll(hash, field) == <<>>

hdel(hash, field) == SelectSeq(hash, LAMBDA e : e[1] # field)

\* FLUSHDB: no key exists (an absent list or hash reads as empty).
flushdb ==
    [stateNumber |-> None, cols |-> None, rows |-> None, title |-> None,
     answerGrid |-> <<>>, cluesAcross |-> <<>>, cluesDown |-> <<>>,
     gridNumbers |-> <<>>, revealedGrid |-> <<>>, grid |-> <<>>,
     userHash |-> <<>>]

\* --------------------------------------------------- puzzle definitions

\* The JSON files the server may be started with.
Definitions ==
    { [size |-> [rows |-> 1, cols |-> 2], grid |-> <<"X", ".">>,
       clues |-> [across |-> <<"1. x">>, down |-> <<"1. y">>],
       gridnums |-> <<1, 0>>, title |-> "t1"],
      [size |-> [rows |-> 2, cols |-> 1], grid |-> <<"X", "Y">>,
       clues |-> [across |-> <<"1. x", "2. y">>, down |-> <<"1. z">>],
       gridnums |-> <<1, 2>>, title |-> "t2"] }

\* JSON files whose grid does not have rows*cols cells.
Inconsistent ==
    { [size |-> [rows |-> 1, cols |-> 2], grid |-> <<"X">>,
       clues |-> [across |-> <<"1. x">>, down |-> <<"1. y">>],
       gridnums |-> <<1, 0>>, title |-> "t3"] }

\* JSON files that lack a key the loader reads.
Incomplete ==
    { [size |-> [rows |-> 1, cols |-> 2], grid |-> <<"X", ".">>,
       clues |-> [across |-> <<"1. x">>, down |-> <<"1. y">>],
       gridnums |-> <<1, 0>>],
      [size |-> [rows |-> 1, cols |-> 2],
       clues |-> [across |-> <<"1. x">>, down |-> <<"1. y">>],
       gridnums |-> <<1, 0>>, title |-> "t4"] }

\* What a previous run of the server may have left in the database.
StaleDb ==
    [flushdb EXCEPT !.stateNumber = "0", !.cols = "1", !.rows = "1",
                    !.title = "old", !.answerGrid = <<"Z">>,
                    !.cluesAcross = <<"1. z">>, !.cluesDown = <<"1. z">>,
                    !.gridNumbers = <<"1">>, !.revealedGrid = <<"0", "-1">>,
                    !.grid = <<"Z">>, !.userHash = <<<<"old", "0">>>>]

\* ------------------------------------------------------------------ state

VARIABLES
    phase,      \* position of the main program: "init", then "serving" or "failed"
    r,          \* the Redis database
    conn,       \* per sid: "new", "connecting", "open", "closed"
    handlers,   \* the event handlers in progress
    inbox,      \* per sid: the messages emitted to it and not yet received
    errors,     \* number of handlers that ended in an uncaught exception
    nEvents,    \* client events dispatched so far
    localGrid,  \* per sid: the grid its client shows (<<>> before it is fetched)
    applied     \* history: the manual and revealed updates stored so far, in order

vars == <<phase, r, conn, handlers, inbox, errors, nEvents, localGrid, applied>>

Init ==
    /\ phase = "init"
    /\ r \in {flushdb, StaleDb}
    /\ conn = [s \in Sids |-> "new"]
    /\ handlers = {}
    /\ inbox = [s \in Sids |-> <<>>]
    /\ errors = 0
    /\ nEvents = 0
    /\ localGrid = [s \in Sids |-> <<>>]
    /\ applied = <<>>

\* ---------------------------------------------------------- initialization

\* The first line of initializeRedisFromJson that reads a key jsonData does
\* not have (Python raises KeyError there), 0 when there is none.
KeyErrorLine(jsonData) ==
    IF "size" \notin DOMAIN jsonData THEN 154
    ELSE IF "cols" \notin DOMAIN jsonData.size THEN 154
    ELSE IF "rows" \notin DOMAIN jsonData.size THEN 155
    ELSE IF "grid" \notin DOMAIN jsonData THEN 156
    ELSE IF "clues" \notin DOMAIN jsonData THEN 157
    ELSE IF "across" \notin DOMAIN jsonData.clues THEN 157
    ELSE IF "down" \notin DOMAIN jsonData.clues THEN 158
    ELSE IF "gridnums" \notin DOMAIN jsonData THEN 159
    ELSE IF "title" \notin DOMAIN jsonData THEN 161
    ELSE 0

\* gridCopy after the loop of lines 166-168.
gridCopy(jsonGrid) ==
    [i \in 1..Len(jsonGrid) |-> IF jsonGrid[i] # "." THEN " " ELSE jsonGrid[i]]

strAll(ints) == [i \in 1..Len(ints) |-> str(ints[i])]

\* The database after initializeRedisFromJson has loaded jsonData.
loadedDb(jsonData) ==
    [flushdb EXCEPT
        !.stateNumber = str(0),
        !.cols = str(jsonData.size.cols),
        !.rows = str(jsonData.size.rows),
        !.answerGrid = rpush(flushdb.answerGrid, jsonData.grid),
        !.cluesAcross = rpush(flushdb.cluesAcross, jsonData.clues.across),
        !.cluesDown = rpush(flushdb.cluesDown, jsonData.clues.down),
        !.gridNumbers = rpush(flushdb.gridNumbers, strAll(jsonData.gridnums)),
        !.title = jsonData.title,
        !.revealedGrid = lpush(flushdb.revealedGrid, <<"-1">>),
        !.grid = lpush(flushdb.grid, gridCopy(jsonData.grid))]

initializeRedisFromJson(jsonData) ==
    /\ phase = "init"
    /\ KeyErrorLine(jsonData) = 0
    /\ r' = loadedDb(jsonData)
    /\ phase' = "serving"
    /\ UNCHANGED <<conn, handlers, inbox, errors, nEvents, localGrid, applied>>

\* The database after the commands of initializeRedisFromJson above line.
loadedUpTo(jsonData, line) ==
    LET d153 == [flushdb EXCEPT !.stateNumber = str(0)]
        d154 == IF line > 154 THEN [d153 EXCEPT !.cols = str(jsonData.size.cols)] ELSE d153
        d155 == IF line > 155 THEN [d154 EXCEPT !.rows = str(jsonData.size.rows)] ELSE d154
        d156 == IF line > 156
                THEN [d155 EXCEPT !.answerGrid = rpush(flushdb.answerGrid, jsonData.grid)]
                ELSE d155
        d157 == IF line > 157
                THEN [d156 EXCEPT !.cluesAcross = rpush(flushdb.cluesAcross, jsonData.clues.across)]
                ELSE d156
        d158 == IF line > 158
                THEN [d157 EXCEPT !.cluesDown = rpush(flushdb.cluesDown, jsonData.clues.down)]
                ELSE d157
        d159 == IF line > 159
                THEN [d158 EXCEPT !.gridNumbers = rpush(flushdb.gridNumbers, strAll(jsonData.gridnums))]
                ELSE d158
    IN  d159

\* initializeRedisFromJson ends in a KeyError: the exception is not caught,
\* the main program stops before app.run and the database keeps what the
\* commands before the failing line wrote.
initializeRedisFromJson_KeyError(jsonData) ==
    /\ phase = "init"
    /\ KeyErrorLine(jsonData) # 0
    /\ r' = loadedUpTo(jsonData, KeyErrorLine(jsonData))
    /\ phase' = "failed"
    /\ UNCHANGED <<conn, handlers, inbox, errors, nEvents, localGrid, applied>>

\* ------------------------------------------------------------- messages

\* The JSON texts a client may send as clientGridUpdate.  The grids of
\* Definitions have 2 cells: positions 0 and 1 are cells, -1 is a negative
\* index LSET accepts, 2 and -3 are out of range on either side.
GridUpdates ==
    {[method |-> "manual", position |-> 0, value |-> v] : v \in Values}
    \cup {[method |-> "manual", position |-> p, value |-> "A"] : p \in {-3, -1, 1, 2}}
    \cup {[method |-> "revealed", position |-> p] : p \in {0}}
    \cup {[method |-> "erase", position |-> 0]}

\* Texts a client may send as clientGridUpdate that json.loads rejects
\* (unparsable) or that lack a key handle_UpdateGrid reads.
MalformedUpdates ==
    { [unparsable |-> "{"],
      [position |-> 0, value |-> "A"],
      [method |-> "manual", value |-> "A"],
      [method |-> "manual", position |-> 0],
      [method |-> "revealed"] }

\* The JSON texts a client may send as clientPositionUpdate.
PositionUpdates == {[position |-> p] : p \in CursorPositions}

\* The sids python-socketio delivers a broadcast to: those in the namespace
\* room whose transport is up.
InRoom(s) == conn[s] \in {"connecting", "open"}

\* socketio.emit(event, data, include_self=...): skip is {request.sid} when
\* include_self is False and {} otherwise.
socketio_emit(event, data, skip) ==
    [s \in Sids |->
        IF InRoom(s) /\ s \notin skip
        THEN Append(inbox[s], [event |-> event, data |-> data])
        ELSE inbox[s]]

\* emit that broadcasts to the whole room.
emitToAll(event, data, sid) == socketio_emit(event, data, {})

\* emit(event, data) inside a handler: to request.sid alone.
emit(event, data, sid) ==
    [s \in Sids |->
        IF InRoom(s) /\ s = sid
        THEN Append(inbox[s], [event |-> event, data |-> data])
        ELSE inbox[s]]

\* A thread is free to run one more handler.
Dispatch(h) ==
    /\ phase = "serving"
    /\ Cardinality(handlers) < MaxHandlers
    /\ handlers' = handlers \cup {h}

\* The handler h with its program counter moved to pc.
At(h, pc) == [h EXCEPT !.pc = pc]

Goto(h, pc) == handlers' = (handlers \ {h}) \cup {At(h, pc)}

Return(h) == handlers' = handlers \ {h}

\* Raise that swallows the exception: the handler goes on to its emit.
RaiseSwallowed(h) ==
    /\ handlers' = (handlers \ {h}) \cup {At(h, "emit")}
    /\ errors' = errors + 1

\* An uncaught exception ends the handler; Flask-SocketIO logs it.
Raise(h) ==
    /\ handlers' = handlers \ {h}
    /\ errors' = errors + 1

\* ------------------------------------------------------ clientGridUpdate

\* A clientGridUpdate event of connection sid reaches the server and a
\* thread is started for handle_UpdateGrid.
dispatchGridUpdate(sid, incomingJsonString) ==
    /\ conn[sid] = "open"
    /\ nEvents < MaxEvents
    /\ nEvents' = nEvents + 1
    /\ Dispatch([event |-> "clientGridUpdate", sid |-> sid,
                 data |-> incomingJsonString, pc |-> "store"])
    /\ UNCHANGED <<phase, r, conn, inbox, errors, applied>>

clientGridUpdate(sid, incomingJsonString) ==
    /\ dispatchGridUpdate(sid, incomingJsonString)
    /\ UNCHANGED localGrid

\* Lines 85-91 raise: json.loads rejects the text, req lacks a key that is
\* read (KeyError), or LSET answers "index out of range".
UpdateGridRaises(db, req) ==
    \/ "unparsable" \in DOMAIN req
    \/ "method" \notin DOMAIN req
    \/ /\ req.method = "manual"
       /\ \/ "position" \notin DOMAIN req
          \/ "value" \notin DOMAIN req
          \/ ~lsetInRange(db.grid, req.position)
    \/ /\ req.method = "revealed"
       /\ "position" \notin DOMAIN req

\* UpdateGridDb that records a position in revealedGrid only once.
UpdateGridDbDedup(db, req) ==
    IF req.method = "manual"
    THEN [db EXCEPT !.grid = lset(db.grid, req.position, req.value)]
    ELSE IF req.method = "revealed"
              /\ \A i \in 1..Len(db.revealedGrid) :
                    db.revealedGrid[i] # str(req.position)
    THEN [db EXCEPT !.revealedGrid = lpush(db.revealedGrid, <<str(req.position)>>)]
    ELSE db

\* UpdateGridDb whose second branch is an else: every method but "manual"
\* records the position in revealedGrid.
UpdateGridDbElse(db, req) ==
    IF req.method = "manual"
    THEN [db EXCEPT !.grid = lset(db.grid, req.position, req.value)]
    ELSE [db EXCEPT !.revealedGrid = lpush(db.revealedGrid, <<str(req.position)>>)]

\* UpdateGridDb whose manual branch writes the list answerGrid.
UpdateGridDbAnswer(db, req) ==
    IF req.method = "manual"
    THEN [db EXCEPT !.answerGrid = lset(db.answerGrid, req.position, req.value)]
    ELSE IF req.method = "revealed"
    THEN [db EXCEPT !.revealedGrid = lpush(db.revealedGrid, <<str(req.position)>>)]
    ELSE db

\* UpdateGridDb that writes nothing: the update is relayed only.
UpdateGridDbNone(db, req) == db

\* The database after lines 88-91.
UpdateGridDb(db, req) ==
    IF req.method = "manual"
    THEN [db EXCEPT !.grid = lset(db.grid, req.position, req.value)]
    ELSE IF req.method = "revealed"
    THEN [db EXCEPT !.revealedGrid = lpush(db.revealedGrid, <<str(req.position)>>)]
    ELSE db

\* Lines 85-91: parse, then the one store command of the handler.
handle_UpdateGrid_store(h) ==
    /\ h \in handlers
    /\ h.event = "clientGridUpdate"
    /\ h.pc = "store"
    /\ IF UpdateGridRaises(r, h.data)
       THEN Raise(h) /\ UNCHANGED <<r, applied>>
       ELSE /\ r' = UpdateGridDb(r, h.data)
            /\ applied' = IF h.data.method \in {"manual", "revealed"}
                          THEN Append(applied, h.data)
                          ELSE applied
            /\ Goto(h, "emit")
            /\ UNCHANGED errors
    /\ UNCHANGED <<phase, conn, inbox, nEvents, localGrid>>

\* UpdateGridSkip with include_self=True.
UpdateGridSkipNobody(h) == {}

\* Whom line 95 skips: include_self=False.
UpdateGridSkip(h) == {h.sid}

\* The payload line 95 relays: the incoming text itself.
UpdateGridPayload(h) == h.data

\* Line 95.
handle_UpdateGrid_emit(h) ==
    /\ h \in handlers
    /\ h.event = "clientGridUpdate"
    /\ h.pc = "emit"
    /\ inbox' = socketio_emit("serverGridUpdate", UpdateGridPayload(h), UpdateGridSkip(h))
    /\ Return(h)
    /\ UNCHANGED <<phase, r, conn, errors, nEvents, localGrid, applied>>

\* -------------------------------------------------- clientPositionUpdate

clientPositionUpdate(sid, incomingJsonString) ==
    /\ conn[sid] = "open"
    /\ nEvents < MaxEvents
    /\ nEvents' = nEvents + 1
    /\ Dispatch([event |-> "clientPositionUpdate", sid |-> sid,
                 data |-> incomingJsonString, pc |-> "hset",
                 hashValues |-> <<>>, hashKeys |-> <<>>])
    /\ UNCHANGED <<phase, r, conn, inbox, errors, localGrid, applied>>

\* Line 100.
handle_UpdatePosition_hset(h) ==
    /\ h \in handlers
    /\ h.event = "clientPositionUpdate"
    /\ h.pc = "hset"
    /\ r' = [r EXCEPT !.userHash = hset(r.userHash, h.sid, str(h.data.position))]
    /\ Goto(h, "hvals")
    /\ UNCHANGED <<phase, conn, inbox, errors, nEvents, localGrid, applied>>

\* Line 102.
handle_UpdatePosition_hvals(h) ==
    /\ h \in handlers
    /\ h.event = "clientPositionUpdate"
    /\ h.pc = "hvals"
    /\ handlers' = (handlers \ {h}) \cup
          {[h EXCEPT !.pc = "hkeys", !.hashValues = hvals(r.userHash)]}
    /\ UNCHANGED <<phase, r, conn, inbox, errors, nEvents, localGrid, applied>>

\* Line 103.
handle_UpdatePosition_hkeys(h) ==
    /\ h \in handlers
    /\ h.event = "clientPositionUpdate"
    /\ h.pc = "hkeys"
    /\ handlers' = (handlers \ {h}) \cup
          {[h EXCEPT !.pc = "emit", !.hashKeys = hkeys(r.userHash)]}
    /\ UNCHANGED <<phase, r, conn, inbox, errors, nEvents, localGrid, applied>>

\* Line 105.
jsonEntries(h) == [websocketID |-> h.hashKeys, position |-> h.hashValues]

\* Line 109: include_self=True.
handle_UpdatePosition_emit(h) ==
    /\ h \in handlers
    /\ h.event = "clientPositionUpdate"
    /\ h.pc = "emit"
    /\ inbox' = socketio_emit("serverPositionUpdate", jsonEntries(h), {})
    /\ Return(h)
    /\ UNCHANGED <<phase, r, conn, errors, nEvents, localGrid, applied>>

\* ------------------------------------------------------------- connect

\* A new connection: python-socketio enters it into the namespace room and
\* calls the connect handler.
connect(sid) ==
    /\ conn[sid] = "new"
    /\ conn' = [conn EXCEPT ![sid] = "connecting"]
    /\ Dispatch([event |-> "connect", sid |-> sid, pc |-> "hset"])
    /\ UNCHANGED <<phase, r, inbox, errors, nEvents, localGrid, applied>>

\* Line 114.
handle_connect_hset(h) ==
    /\ h \in handlers
    /\ h.event = "connect"
    /\ h.pc = "hset"
    /\ r' = [r EXCEPT !.userHash = hset(r.userHash, h.sid, "0")]
    /\ Goto(h, "emit")
    /\ UNCHANGED <<phase, conn, inbox, errors, nEvents, localGrid, applied>>

\* Line 115; when the handler returns the connection is accepted and the
\* client may send events.
handle_connect_emit(h) ==
    /\ h \in handlers
    /\ h.event = "connect"
    /\ h.pc = "emit"
    /\ inbox' = emit("serverAssignID", h.sid, h.sid)
    /\ conn' = [conn EXCEPT ![h.sid] = "open"]
    /\ Return(h)
    /\ UNCHANGED <<phase, r, errors, nEvents, localGrid, applied>>

\* ---------------------------------------------------------- disconnect

\* The connection's transport closes: what was emitted to it and not yet
\* received is lost, and the disconnect handler is called.
disconnect(sid) ==
    /\ conn[sid] = "open"
    /\ conn' = [conn EXCEPT ![sid] = "closed"]
    /\ inbox' = [inbox EXCEPT ![sid] = <<>>]
    /\ Dispatch([event |-> "disconnect", sid |-> sid, pc |-> "hdel",
                 hashValues |-> <<>>])
    /\ UNCHANGED <<phase, r, errors, nEvents, localGrid, applied>>

\* Line 122.
handle_disconnect_hdel(h) ==
    /\ h \in handlers
    /\ h.event = "disconnect"
    /\ h.pc = "hdel"
    /\ r' = [r EXCEPT !.userHash = hdel(r.userHash, h.sid)]
    /\ Goto(h, "hvals")
    /\ UNCHANGED <<phase, conn, inbox, errors, nEvents, localGrid, applied>>

\* Line 123.
handle_disconnect_hvals(h) ==
    /\ h \in handlers
    /\ h.event = "disconnect"
    /\ h.pc = "hvals"
    /\ handlers' = (handlers \ {h}) \cup
          {[h EXCEPT !.pc = "emit", !.hashValues = hvals(r.userHash)]}
    /\ UNCHANGED <<phase, r, conn, inbox, errors, nEvents, localGrid, applied>>

\* Line 124.
output(h) == [position |-> h.hashValues]

\* Line 125: include_self=False.
handle_disconnect_emit(h) ==
    /\ h \in handlers
    /\ h.event = "disconnect"
    /\ h.pc = "emit"
    /\ inbox' = socketio_emit("serverPositionUpdate", output(h), {h.sid})
    /\ Return(h)
    /\ UNCHANGED <<phase, r, conn, errors, nEvents, localGrid, applied>>

\* ----------------------------------------------------------- /crossword

intAll(texts) == [i \in 1..Len(texts) |-> int(texts[i])]

\* Lines 65-67.
revealedGrid(db) == intAll(db.revealedGrid)

\* The bootstrap snapshot: the output of lines 69-77 for the database db.
handle_Crossword(db) ==
    [size |-> [rows |-> int(db.rows), cols |-> int(db.cols)],
     clues |-> [across |-> db.cluesAcross, down |-> db.cluesDown],
     grid |-> db.grid,
     gridnums |-> intAll(db.gridNumbers),
     answerGrid |-> db.answerGrid,
     title |-> db.title,
     revealedGrid |-> revealedGrid(db)]

\* ------------------------------------------------------------- clients

\* The oldest message emitted to connection sid arrives at its client.
deliver(sid) ==
    /\ inbox[sid] # <<>>
    /\ inbox' = [inbox EXCEPT ![sid] = Tail(inbox[sid])]
    /\ UNCHANGED <<phase, r, conn, handlers, errors, nEvents, applied>>

Receive(sid) ==
    /\ deliver(sid)
    /\ UNCHANGED localGrid

\* The in-range manual updates a client makes from its own grid.
ClientUpdates ==
    {m \in GridUpdates : m.method = "manual" /\ m.position \in {0, 1}}

\* What a client does to its grid for a grid update, its own or a relayed one.
clientApply(grid, m) ==
    IF m.method = "manual" /\ 0 <= m.position /\ m.position < Len(grid)
    THEN [grid EXCEPT ![m.position + 1] = m.value]
    ELSE grid

\* The client of connection sid fetches /crossword and shows the grid of the
\* snapshot.  It does so once connected, so no relay emitted after the
\* snapshot misses it.
getCrossword(sid) ==
    /\ phase = "serving"
    /\ conn[sid] = "open"
    /\ localGrid[sid] = <<>>
    /\ localGrid' = [localGrid EXCEPT ![sid] = handle_Crossword(r).grid]
    /\ UNCHANGED <<phase, r, conn, handlers, inbox, errors, nEvents, applied>>

\* The client writes a letter into its own grid and sends the update; it
\* sends the next one when the server has handled this one.
clientEdit(sid, m) ==
    /\ localGrid[sid] # <<>>
    /\ \A h \in handlers : h.sid # sid
    /\ localGrid' = [localGrid EXCEPT ![sid] = clientApply(@, m)]
    /\ dispatchGridUpdate(sid, m)

\* The client takes the oldest message emitted to it and applies a relayed
\* grid update to its grid (messages wait until it has fetched the grid).
clientReceive(sid) ==
    /\ localGrid[sid] # <<>>
    /\ deliver(sid)
    /\ localGrid' =
          [localGrid EXCEPT ![sid] =
              IF Head(inbox[sid]).event = "serverGridUpdate"
              THEN clientApply(@, Head(inbox[sid]).data)
              ELSE @]

\* ------------------------------------------------------- specification

\* The server and the messages it emits; what the clients show is left out.
Next ==
    \/ \E jsonData \in Definitions : initializeRedisFromJson(jsonData)
    \/ \E sid \in Sids : connect(sid)
    \/ \E h \in handlers : handle_connect_hset(h)
    \/ \E h \in handlers : handle_connect_emit(h)
    \/ \E sid \in Sids : disconnect(sid)
    \/ \E h \in handlers : handle_disconnect_hdel(h)
    \/ \E h \in handlers : handle_disconnect_hvals(h)
    \/ \E h \in handlers : handle_disconnect_emit(h)
    \/ \E sid \in Sids, m \in GridUpdates : clientGridUpdate(sid, m)
    \/ \E h \in handlers : handle_UpdateGrid_store(h)
    \/ \E h \in handlers : handle_UpdateGrid_emit(h)
    \/ \E sid \in Sids, m \in PositionUpdates : clientPositionUpdate(sid, m)
    \/ \E h \in handlers : handle_UpdatePosition_hset(h)
    \/ \E h \in handlers : handle_UpdatePosition_hvals(h)
    \/ \E h \in handlers : handle_UpdatePosition_hkeys(h)
    \/ \E h \in handlers : handle_UpdatePosition_emit(h)
    \/ \E sid \in Sids : Receive(sid)


Spec == Init /\ [][Next]_vars

\* The server together with clients that edit their own grids: connections,
\* bootstraps, manual updates and their relays.
NextSync ==
    \/ \E jsonData \in Definitions : initializeRedisFromJson(jsonData)
    \/ \E sid \in Sids : connect(sid)
    \/ \E h \in handlers : handle_connect_hset(h)
    \/ \E h \in handlers : handle_connect_emit(h)
    \/ \E sid \in Sids : getCrossword(sid)
    \/ \E sid \in Sids, m \in ClientUpdates : clientEdit(sid, m)
    \/ \E h \in handlers : handle_UpdateGrid_store(h)
    \/ \E h \in handlers : handle_UpdateGrid_emit(h)
    \/ \E sid \in Sids : clientReceive(sid)

SpecSync == Init /\ [][NextSync]_vars

\* The server given input it should refuse: puzzle definitions that are
\* inconsistent or incomplete, and grid updates that are malformed.
NextMalformed ==
    \/ \E jsonData \in Definitions \cup Inconsistent : initializeRedisFromJson(jsonData)
    \/ \E jsonData \in Incomplete : initializeRedisFromJson_KeyError(jsonData)
    \/ \E sid \in Sids : connect(sid)
    \/ \E h \in handlers : handle_connect_hset(h)
    \/ \E h \in handlers : handle_connect_emit(h)
    \/ \E sid \in Sids, m \in GridUpdates \cup MalformedUpdates : clientGridUpdate(sid, m)
    \/ \E h \in handlers : handle_UpdateGrid_store(h)
    \/ \E h \in handlers : handle_UpdateGrid_emit(h)
    \/ \E sid \in Sids : Receive(sid)

SpecMalformed == Init /\ [][NextMalformed]_vars


\* ------------------------------------------------------------- properties

\* The grid of the bootstrap snapshot.
snapshotGrid == handle_Crossword(r).grid

\* The number of cells the stored dimensions give.
nCells == int(r.rows) * int(r.cols)

\* h is a manual update of the in-range position p with value v.
IsManual(h, p, v) ==
    /\ h.event = "clientGridUpdate"
    /\ h.data.method = "manual"
    /\ h.data.position = p
    /\ h.data.value = v

C3_RelayToOthersOnce ==
    [][\A h \in handlers :
          handle_UpdateGrid_emit(h) =>
             \A s \in Sids :
                inbox'[s] =
                   IF InRoom(s) /\ s # h.sid
                   THEN Append(inbox[s], [event |-> "serverGridUpdate", data |-> h.data])
                   ELSE inbox[s]
      ]_vars

\* An update of an unknown method has been relayed to another connection while
\* the sender, still connected, has received nothing.
C3_Witness ==
    \E s, t \in Sids :
        /\ s # t
        /\ conn[s] = "open"
        /\ inbox[s] = <<>>
        /\ inbox[t] # <<>>
        /\ inbox[t][Len(inbox[t])] =
              [event |-> "serverGridUpdate", data |-> [method |-> "erase", position |-> 0]]

\* C4: right after initializeRedisFromJson (no client event dispatched yet)
\* the stored grid has rows*cols cells and, index by index, holds "." where
\* answerGrid holds "." and the blank " " elsewhere.
C4_LoadedGridMatchesAnswer ==
    (phase = "serving" /\ nEvents = 0) =>
        LET snapshot == handle_Crossword(r)
        IN  /\ Len(snapshot.grid) = snapshot.size.rows * snapshot.size.cols
            /\ \A i \in 1..Len(snapshot.grid) :
                  snapshot.grid[i] = IF snapshot.answerGrid[i] = "." THEN "." ELSE " "

\* How many times x occurs in list.
Count(list, x) == Cardinality({i \in 1..Len(list) : list[i] = x})

\* h is a revealed update of position p.
IsRevealed(h, p) ==
    /\ h.event = "clientGridUpdate"
    /\ h.data.method = "revealed"
    /\ h.data.position = p

\* C5: the store command of a revealed update of position p adds exactly one
\* occurrence of p to the snapshot's revealedGrid, and no step of the serving
\* server removes an occurrence of any position: k such updates, from one
\* connection or from several at once, leave at least k occurrences of p.
C5_RevealAppends ==
    [][phase = "serving" =>
          LET before == revealedGrid(r)
              after == revealedGrid(r')
          IN  /\ \A h \in handlers :
                    handle_UpdateGrid_store(h) /\ h.data.method = "revealed"
                    => Count(after, h.data.position)
                         = Count(before, h.data.position) + 1
              /\ r'.revealedGrid # r.revealedGrid
                    => \A p \in -1..2 : Count(after, p) >= Count(before, p)
      ]_vars

\* Two connections have revealed position 0 at the same time, both reveals
\* are stored, and revealedGrid holds position 0 twice.
C5_Witness ==
    \E h1, h2 \in handlers :
        /\ h1.sid # h2.sid
        /\ IsRevealed(h1, 0) /\ h1.pc = "emit"
        /\ IsRevealed(h2, 0) /\ h2.pc = "emit"
        /\ Count(revealedGrid(r), 0) = 2

\* The presence map without the entry of sid.
Others(hash, sid) == SelectSeq(hash, LAMBDA e : e[1] # sid)

C7_PresenceSnapshotParallel ==
    [][\A h \in handlers :
          handle_UpdatePosition_emit(h) =>
             LET m == jsonEntries(h)
             IN  /\ \A s \in Sids :
                       InRoom(s) =>
                          inbox'[s] = Append(inbox[s],
                                        [event |-> "serverPositionUpdate", data |-> m])
                 /\ Len(m.websocketID) = Len(m.position)
                 /\ \A i, j \in 1..Len(m.websocketID) :
                       m.websocketID[i] = m.websocketID[j] => i = j
      ]_vars

\* C8: a manual update whose position is below 0 or at least rows*cols raises
\* an error and leaves the stored grid as it was.
C8_OutOfRangeDropped ==
    [][\A h \in handlers :
          handle_UpdateGrid_store(h) /\ h.data.method = "manual"
             /\ (h.data.position < 0 \/ h.data.position >= nCells)
          => /\ r'.grid = r.grid
             /\ errors' = errors + 1
             /\ At(h, "emit") \notin handlers'
      ]_vars

\* C9: for a grid update whose method is neither "manual" nor "revealed", no
\* step of handle_UpdateGrid raises an error or changes the database (grid,
\* revealedGrid and the presence map included).
C9_UnknownMethodNoOp ==
    [][\A h \in handlers :
          (handle_UpdateGrid_store(h) \/ handle_UpdateGrid_emit(h))
             /\ h.data.method \notin {"manual", "revealed"}
          => /\ r' = r
             /\ errors' = errors
             /\ h.pc = "store" => At(h, "emit") \in handlers'
      ]_vars

\* An update of an unknown method has passed the store step and waits to be
\* relayed.
C9_Witness ==
    \E h \in handlers :
        /\ h.event = "clientGridUpdate"
        /\ h.data.method = "erase"
        /\ h.pc = "emit"
        /\ errors = 0

\* C10: a cell of the stored grid changes only in the store step of a manual
\* update of that cell, and then to that update's value; and when the manual
\* update of one connection is already stored, the store step of another
\* connection's manual update of the same cell leaves its own value there and
\* changes no other cell: the write applied last wins.
C10_LastWriteWins ==
    [][/\ phase = "serving" =>
            /\ Len(r'.grid) = Len(r.grid)
            /\ \A i \in 1..Len(r.grid) :
                  r'.grid[i] # r.grid[i] =>
                     \E h \in handlers :
                        /\ handle_UpdateGrid_store(h)
                        /\ h.data.method = "manual"
                        /\ lsetPlace(r.grid, h.data.position) = i
                        /\ r'.grid[i] = h.data.value
       /\ \A h1, h2 \in handlers :
             /\ h1.event = "clientGridUpdate" /\ h1.pc = "emit"
             /\ h1.data.method = "manual"
             /\ h1.sid # h2.sid
             /\ handle_UpdateGrid_store(h2) /\ h2.data.method = "manual"
             /\ lsetInRange(r.grid, h2.data.position)
             /\ lsetPlace(r.grid, h1.data.position) = lsetPlace(r.grid, h2.data.position)
             => /\ r'.grid[lsetPlace(r.grid, h2.data.position)] = h2.data.value
                /\ \A i \in 1..Len(r.grid) :
                      i # lsetPlace(r.grid, h2.data.position) => r'.grid[i] = r.grid[i]
      ]_vars

\* Two connections have written different letters to cell 0, both writes are
\* stored, the one stored last being "B", and cell 1 is as loaded.
C10_Witness ==
    \E h1, h2 \in handlers :
        /\ h1.sid # h2.sid
        /\ IsManual(h1, 0, "A") /\ h1.pc = "emit"
        /\ IsManual(h2, 0, "B") /\ h2.pc = "emit"
        /\ snapshotGrid[1] = "B"
        /\ snapshotGrid[2] = " "

\* No handler is in progress and no emitted message is still under way.
Quiescent == handlers = {} /\ \A s \in Sids : inbox[s] = <<>>

\* C1: once every handler has completed and no relayed message is in flight,
\* the grid of every connected client that has fetched the snapshot equals
\* the stored grid.
C1_ClientsConverge ==
    Quiescent =>
        \A s \in Sids :
            conn[s] = "open" /\ localGrid[s] # <<>> => localGrid[s] = r.grid

\* C11: the connect handler of a connection sends serverAssignID, carrying
\* that connection's sid, to that connection alone; no step of a connect
\* (its dispatch, its store command, its emit) puts a message into any other
\* connection's inbox, and none changes grid or revealedGrid.
C11_ConnectAssignsIdToSelfOnly ==
    [][/\ \A sid \in Sids : connect(sid) => inbox' = inbox /\ r' = r
       /\ \A h \in handlers :
             /\ handle_connect_hset(h)
                => /\ inbox' = inbox
                   /\ r'.grid = r.grid
                   /\ r'.revealedGrid = r.revealedGrid
             /\ handle_connect_emit(h)
                => /\ inbox'[h.sid] =
                         Append(inbox[h.sid], [event |-> "serverAssignID", data |-> h.sid])
                   /\ \A s \in Sids \ {h.sid} : inbox'[s] = inbox[s]
                   /\ r'.grid = r.grid
                   /\ r'.revealedGrid = r.revealedGrid
      ]_vars

\* A second connection has been sent its sid while the first one, connected
\* and with nothing left to receive, has been sent nothing.
C11_Witness ==
    \E s, t \in Sids :
        /\ s # t
        /\ conn[s] = "open" /\ inbox[s] = <<>>
        /\ conn[t] = "open"
        /\ inbox[t] = <<[event |-> "serverAssignID", data |-> t]>>

\* C12: the disconnect handler of connection id reads the positions of exactly
\* the entries that remain once id's entry is removed (one position per entry
\* of the presence map other than id's), and its emit sends one
\* serverPositionUpdate, a record with the single field position holding what
\* was read, to every other connection in the room and nothing to id.
C12_DisconnectBroadcastsRemaining ==
    [][\A h \in handlers :
          /\ handle_disconnect_hvals(h)
             => [h EXCEPT !.pc = "emit",
                          !.hashValues = hvals(Others(r.userHash, h.sid))]
                   \in handlers'
          /\ handle_disconnect_emit(h)
             => \A s \in Sids :
                   inbox'[s] =
                      IF InRoom(s) /\ s # h.sid
                      THEN Append(inbox[s], [event |-> "serverPositionUpdate",
                                             data |-> [position |-> h.hashValues]])
                      ELSE inbox[s]
      ]_vars

\* The loaded definition is consistent: answerGrid and gridNumbers have
\* rows*cols entries each.
Consistent(db) ==
    /\ Len(db.answerGrid) = int(db.rows) * int(db.cols)
    /\ Len(db.gridNumbers) = int(db.rows) * int(db.cols)

\* C13: the server serves (app.run is reached, connections are accepted, a
\* snapshot can be fetched) only from a database loaded from a structurally
\* consistent definition: a load of an inconsistent or incomplete definition
\* ends in an error instead.
C13_InconsistentLoadRefused ==
    (phase = "serving" \/ \E s \in Sids : conn[s] # "new") => Consistent(r)

\* The grid initializeRedisFromJson stored, recomputed from answerGrid (which
\* holds the definition's grid).
loadedGrid == lpush(<<>>, gridCopy(r.answerGrid))

\* C14: while the server serves, every cell that held "." after load still
\* holds ".", whatever grid updates the clients have sent.
C14_BlocksImmutable ==
    phase = "serving" =>
        \A i \in 1..Len(loadedGrid) : loadedGrid[i] = "." => r.grid[i] = "."

\* The disconnect handler of connection s has run to its end.
Disconnected(s) ==
    /\ conn[s] = "closed"
    /\ \A h \in handlers : ~(h.event = "disconnect" /\ h.sid = s)

\* C15: in every state each connected connection has exactly one entry in
\* the presence map, and a connection whose disconnect handler has run has
\* none, also when a position update it sent is handled around its disconnect.
C15_PresenceMatchesConnections ==
    \A s \in Sids :
        /\ conn[s] = "open" => Count(hkeys(r.userHash), s) = 1
        /\ Disconnected(s) => Count(hkeys(r.userHash), s) = 0

\* The place of the grid the applied update m wrote.
PlaceOf(m) == lsetPlace(r.grid, m.position)

\* The i-th applied update is reflected by the database: a reveal's position
\* is in revealedGrid, and a manual update's cell holds the value of the last
\* applied manual update of that cell (its own, or a later one's).
Reflected(i) ==
    LET m == applied[i]
    IN  IF m.method = "revealed"
        THEN \E k \in 1..Len(r.revealedGrid) : revealedGrid(r)[k] = m.position
        ELSE LET later == {j \in i..Len(applied) :
                              /\ applied[j].method = "manual"
                              /\ PlaceOf(applied[j]) = PlaceOf(m)}
                 last == CHOOSE j \in later : \A k \in later : k <= j
             IN  handle_Crossword(r).grid[PlaceOf(m)] = applied[last].value

\* C16: every manual or revealed update a connection has been sent as
\* serverGridUpdate is one the store has applied before; the applied updates
\* are never forgotten; and the snapshot reflects every applied update, so it
\* does at the receipt of a relayed update and at every time after it.
C16_StoreBeforeRelay ==
    /\ [](\A s \in Sids : \A k \in 1..Len(inbox[s]) :
             /\ inbox[s][k].event = "serverGridUpdate"
             /\ inbox[s][k].data.method \in {"manual", "revealed"}
             => \E i \in 1..Len(applied) : applied[i] = inbox[s][k].data)
    /\ [](\A i \in 1..Len(applied) : Reflected(i))
    /\ [][Len(applied') >= Len(applied)
            /\ \A i \in 1..Len(applied) : applied'[i] = applied[i]]_vars

\* A connection has been sent the relay of a manual update of cell 0 whose
\* value a later manual update of the same cell has already replaced.
C16_Witness ==
    \E s \in Sids :
        /\ inbox[s] # <<>>
        /\ inbox[s][Len(inbox[s])] =
              [event |-> "serverGridUpdate",
               data |-> [method |-> "manual", position |-> 0, value |-> "A"]]
        /\ Len(applied) = 2
        /\ applied[1] = [method |-> "manual", position |-> 0, value |-> "A"]
        /\ applied[2] = [method |-> "manual", position |-> 0, value |-> "B"]
        /\ handle_Crossword(r).grid[1] = "B"

\* list is what remains of longer when elements are dropped from its head.
IsTailOf(list, longer) ==
    /\ Len(list) <= Len(longer)
    /\ list = SubSeq(longer, Len(longer) - Len(list) + 1, Len(longer))

\* C17: once loaded and before any client event, the snapshot's revealedGrid
\* is the single sentinel [-1]; every step of the serving server keeps all it
\* holds (the old list is the tail of the new one, so its length never
\* decreases and no element leaves); and the sentinel -1 is in it in every
\* state.
C17_RevealedGridGrows ==
    /\ [](phase = "serving" /\ nEvents = 0 => revealedGrid(r) = <<-1>>)
    /\ [](phase = "serving" => Count(revealedGrid(r), -1) >= 1)
    /\ [][phase = "serving" => IsTailOf(r.revealedGrid, r'.revealedGrid)]_vars

\* Position 0 has been revealed twice on top of the sentinel.
C17_Witness ==
    /\ revealedGrid(r) = <<0, 0, -1>>
    /\ handlers = {}

\* The read-only puzzle fields of the database.
PuzzleFields(db) ==
    <<db.rows, db.cols, db.answerGrid, db.gridNumbers, db.cluesAcross,
      db.cluesDown, db.title>>

\* C18: every step of the serving server (the steps of the connect,
\* disconnect, grid-update and position-update handlers among them) leaves
\* rows, cols, answerGrid, gridNumbers, cluesAcross, cluesDown and title as
\* they are, and the stored grid has rows*cols cells in every state.
C18_PuzzleFieldsReadOnly ==
    /\ [](phase = "serving" => Len(r.grid) = nCells)
    /\ [][phase = "serving" =>
              /\ PuzzleFields(r') = PuzzleFields(r)
              /\ Len(r'.grid) = Len(r.grid)]_vars

\* Handlers of all four kinds have run: one connection has come and gone,
\* the other has written a cell and moved its cursor, and the puzzle fields
\* are those of the loaded definition.
C18_Witness ==
    \E s, t \in Sids :
        /\ Disconnected(s)
        /\ conn[t] = "open"
        /\ r.userHash = <<<<t, "1">>>>
        /\ \E i \in 1..Len(r.grid) : r.grid[i] \in Values
        /\ handlers = {}
        /\ \E d \in Definitions :
              PuzzleFields(r) = PuzzleFields(loadedDb(d))

\* C19: the store command of a manual update leaves revealedGrid and the
\* presence map as they are; that of a revealed update leaves grid and the
\* presence map as they are; the store command of a position update of
\* connection c leaves grid, revealedGrid and every entry of the presence map
\* but c's as they are; and the other steps of the two handlers (the reads and
\* the emits) leave the whole database as it is.
C19_EachKindOwnPart ==
    [][\A h \in handlers :
          /\ handle_UpdateGrid_store(h) /\ h.data.method = "manual"
             => /\ r'.revealedGrid = r.revealedGrid
                /\ r'.userHash = r.userHash
          /\ handle_UpdateGrid_store(h) /\ h.data.method = "revealed"
             => /\ r'.grid = r.grid
                /\ r'.userHash = r.userHash
          /\ handle_UpdatePosition_hset(h)
             => /\ r'.grid = r.grid
                /\ r'.revealedGrid = r.revealedGrid
                /\ Others(r'.userHash, h.sid) = Others(r.userHash, h.sid)
                /\ hget(r'.userHash, h.sid) = str(h.data.position)
          /\ \/ handle_UpdateGrid_emit(h)
             \/ handle_UpdatePosition_hvals(h)
             \/ handle_UpdatePosition_hkeys(h)
             \/ handle_UpdatePosition_emit(h)
             => r' = r
      ]_vars

\* One connection has moved its cursor and the other has revealed a cell:
\* the other's presence entry is still at position 0, the reveal is recorded
\* and the grid is as loaded.
C19_Witness ==
    \E s, t \in Sids :
        /\ r.userHash = <<<<s, "1">>, <<t, "0">>>>
        /\ revealedGrid(r) = <<0, -1>>
        /\ r.grid = loadedGrid
        /\ \E h \in handlers : h.event = "clientPositionUpdate" /\ h.sid = s /\ h.pc = "hvals"
        /\ \E h \in handlers : IsRevealed(h, 0) /\ h.sid = t /\ h.pc = "emit"

\* The grid update m is one the handler cannot carry out: the text does not
\* parse, a key the chosen branch reads (method, position, value) is missing,
\* or the position of a manual update is outside what LSET accepts.
Rejected(m) ==
    \/ "unparsable" \in DOMAIN m
    \/ "method" \notin DOMAIN m
    \/ /\ m.method = "manual"
       /\ \/ ~({"position", "value"} \subseteq DOMAIN m)
          \/ m.position < -Len(r.grid)
          \/ m.position >= Len(r.grid)
    \/ /\ m.method = "revealed"
       /\ "position" \notin DOMAIN m

\* C20: no connection is ever sent a serverGridUpdate for a rejected grid
\* update; the step in which handle_UpdateGrid fails on one counts an error,
\* ends that handler alone and leaves the database (presence map included),
\* every inbox, every connection and every other handler as they are, so the
\* messages that follow are handled as usual.
C20_RejectedUpdateNotRelayed ==
    /\ [](\A s \in Sids : \A k \in 1..Len(inbox[s]) :
             inbox[s][k].event = "serverGridUpdate" => ~Rejected(inbox[s][k].data))
    /\ [][\A h \in handlers :
             handle_UpdateGrid_store(h) /\ Rejected(h.data)
             => /\ r' = r
                /\ inbox' = inbox
                /\ conn' = conn
                /\ phase' = phase
                /\ handlers' = handlers \ {h}
                /\ errors' = errors + 1
         ]_vars

\* Of the two grid updates sent, one has failed and the other has been
\* stored and relayed to the connection that did not send it.
C20_Witness ==
    \E s, t \in Sids :
        /\ s # t
        /\ errors = 1
        /\ nEvents = 2
        /\ handlers = {}
        /\ conn[s] = "open"
        /\ inbox[s] = <<>>
        /\ applied = <<[method |-> "manual", position |-> 0, value |-> "A"]>>
        /\ inbox[t] # <<>>
        /\ inbox[t][Len(inbox[t])] =
              [event |-> "serverGridUpdate",
               data |-> [method |-> "manual", position |-> 0, value |-> "A"]]
====
